---- MODULE Spec2Model ----
(***************************************************************************)
(* Merkleization engine of ssz-rs (ssz_rs/src/merkleization/mod.rs).       *)
(*                                                                         *)
(* A byte is an integer 0..255, a byte buffer a sequence of bytes and a    *)
(* chunk 32 consecutive bytes.  SHA-256 is modelled as a collision-free    *)
(* function of its input: a digest is the term that records what was       *)
(* hashed, <<HashTag>> \o left \o right.  The one identification made is   *)
(* the one the real function makes too: the digest of two equal all-zero   *)
(* subtrees of height d is written <<ZeroTag, d + 1>>, so that the         *)
(* all-zero tree of 2^63 leaves has a finite name.                         *)
(*                                                                         *)
(* A usize is a 64-bit word, kept as its bits [0..63 -> {0,1}] wherever a  *)
(* value can come near 2^63 (limit, leaf_count); counts and indices that   *)
(* are bounded by the length of a buffer in memory are plain integers.     *)
(***************************************************************************)
EXTENDS Integers, Sequences, FiniteSets, TLC

BYTES_PER_CHUNK == 32
MAX_MERKLE_TREE_DEPTH == 64
USIZE_BITS == 64

\* Bounds of the model.
MaxChunks == 5          \* chunk_count of a call is 0..MaxChunks
MaxLimit == 8           \* small limits are 0..MaxLimit
MaxBufLen == 65         \* pack_bytes is given buffers of 0..MaxBufLen bytes
MaxValues == 17         \* pack is given 0..MaxValues values
MaxPacks == 2           \* pack_bytes is applied to a buffer up to MaxPacks times
MaxDecoration == 2      \* lengths and selectors 0..MaxDecoration, and a few larger
MaxProofDepth == 10     \* branches are verified in trees of depth 0..MaxProofDepth
MaxElems == 2           \* the cached value's list holds 0..MaxElems elements
ListLimit == 4          \* the declared capacity N of that list

---------------------------------------------------------------------------
\* Nodes and the hash function

HashTag == 0 - 1
ZeroTag == 0 - 2

ZeroChunk == [j \in 1..BYTES_PER_CHUNK |-> 0]

\* The root of the all-zero tree of height d, context[d] of a correct table.
ZeroNode(d) == IF d = 0 THEN ZeroChunk ELSE <<ZeroTag, d>>

\* d when n is the all-zero tree of height d, and -1 for any other node.
ZeroDepth(n) ==
    IF n = ZeroChunk THEN 0
    ELSE IF Len(n) = 2 /\ n[1] = ZeroTag THEN n[2]
    ELSE 0 - 1

\* SHA-256 of the 64 bytes a || b.
Sha256(a, b) ==
    IF a = b /\ ZeroDepth(a) >= 0 THEN <<ZeroTag, ZeroDepth(a) + 1>>
    ELSE <<HashTag>> \o a \o b

\* hash_nodes(hasher, a, b, out): the value left in out.
hash_nodes(a, b) == Sha256(a, b)

---------------------------------------------------------------------------
\* usize

Bits == 0..(USIZE_BITS - 1)

\* The usize of a small natural number (n < 2^31).
ToUsize(n) == [j \in Bits |-> IF j < 31 THEN (n \div (2 ^ j)) % 2 ELSE 0]

Pow2Usize(e) == [j \in Bits |-> IF j = e THEN 1 ELSE 0]

UsizeZero == [j \in Bits |-> 0]
UsizeMax == [j \in Bits |-> 1]

IsZeroUsize(u) == \A j \in Bits : u[j] = 0

HighBit(u) == CHOOSE j \in Bits : u[j] = 1 /\ \A h \in Bits : h > j => u[h] = 0
LowBit(u) == CHOOSE j \in Bits : u[j] = 1 /\ \A h \in Bits : h < j => u[h] = 0

\* a < b on usize
UsizeLess(a, b) ==
    \E j \in Bits : a[j] < b[j] /\ \A h \in Bits : h > j => a[h] = b[h]

\* usize::trailing_zeros
trailing_zeros(u) == IF IsZeroUsize(u) THEN USIZE_BITS ELSE LowBit(u)

\* usize::next_power_of_two: the smallest power of two >= u.  When that is
\* 2^64 a debug build panics and a release build returns 0.
next_power_of_two(u, build) ==
    IF IsZeroUsize(u) THEN [panic |-> FALSE, value |-> Pow2Usize(0)]
    ELSE IF HighBit(u) = LowBit(u) THEN [panic |-> FALSE, value |-> u]
    ELSE IF HighBit(u) + 1 < USIZE_BITS
         THEN [panic |-> FALSE, value |-> Pow2Usize(HighBit(u) + 1)]
    ELSE IF build = "debug" THEN [panic |-> TRUE, value |-> UsizeZero]
    ELSE [panic |-> FALSE, value |-> UsizeZero]

\* i < 2usize.pow(k) for an index i < 2^31; 2usize.pow(k) wraps to 0 in a
\* release build when k >= 64.
BelowPow2(i, k) ==
    IF k >= USIZE_BITS THEN FALSE
    ELSE IF k >= 31 THEN TRUE
    ELSE i < 2 ^ k

---------------------------------------------------------------------------
\* Context

\* compute_zero_hashes with the loop stopped one entry early.
RECURSIVE ZeroHashesLoopShort(_, _)
ZeroHashesLoopShort(buffer, i) ==
    IF i >= MAX_MERKLE_TREE_DEPTH - 2 \/ i + 2 > Len(buffer) THEN buffer
    ELSE ZeroHashesLoopShort(
            [buffer EXCEPT ![i + 2] = hash_nodes(buffer[i + 1], buffer[i + 1])],
            i + 1)

\* The loop of compute_zero_hashes from iteration i on: iteration i hashes
\* slot i + 1 of the buffer with itself into slot i + 2, which the buffer of
\* MAX_MERKLE_TREE_DEPTH slots holds for every i of the loop.
RECURSIVE ZeroHashesLoop(_, _)
ZeroHashesLoop(buffer, i) ==
    IF i >= MAX_MERKLE_TREE_DEPTH - 1 \/ i + 2 > Len(buffer) THEN buffer
    ELSE ZeroHashesLoop(
            [buffer EXCEPT ![i + 2] = hash_nodes(buffer[i + 1], buffer[i + 1])],
            i + 1)

\* compute_zero_hashes(): slot d + 1 of the result is bytes 32d .. 32d+31.
compute_zero_hashes ==
    ZeroHashesLoop([d \in 1..MAX_MERKLE_TREE_DEPTH |-> ZeroChunk], 0)

ContextNew == [zero_hashes |-> compute_zero_hashes]

\* Whether the slice zero_hashes[index * 32 .. (index + 1) * 32] exists.
ContextInRange(ctx, index) ==
    (index + 1) * BYTES_PER_CHUNK <= Len(ctx.zero_hashes) * BYTES_PER_CHUNK

\* context[index]
ContextIndex(ctx, index) == ctx.zero_hashes[index + 1]

---------------------------------------------------------------------------
\* merkleize_chunks_with_virtual_padding and merkleize

\* Slot j (from 0) of a byte buffer: bytes 32j .. 32j+31.
ChunkAt(bytes, j) ==
    SubSeq(bytes, j * BYTES_PER_CHUNK + 1, (j + 1) * BYTES_PER_CHUNK)

\* chunks.to_vec(), seen as its 32-byte slots.
ToLayer(bytes) ==
    [j \in 1..(Len(bytes) \div BYTES_PER_CHUNK) |-> ChunkAt(bytes, j - 1)]

\* The state of one call.  pc: "idle" (no call), "loop" (in the level
\* loop, before the iteration for pair i of level k), "done" (Ok(result)),
\* "err" (Err(InputExceedsLimit(err_limit))), "panic".  hashes counts the
\* digests computed and depths collects the indices the context was read at.
\* What the last iteration did with the buffer is recorded beside them:
\* reads, the slots of layer it read (level-relative, 0-based); right_src,
\* where the right input of its digest came from ("buffer", "context", or
\* "none" when it computed no digest) and right_at, the slot or the context
\* index; wrote, the slot it wrote (-1 for none).  levels counts the levels
\* left behind, start is layer as it was when the current level began and
\* below as it was when the level before began; end_i, end_last and
\* end_range are i, last_index and whether the inner range was exhausted
\* when the last level ended (end_i = -1 before the first).
NoCall ==
    [pc |-> "idle", leaf_count |-> UsizeZero, height |-> 0, layer |-> <<>>,
     last_index |-> 0, k |-> 0, i |-> 0, result |-> <<>>,
     err_limit |-> UsizeZero, hashes |-> 0, depths |-> {},
     reads |-> {}, right_src |-> "none", right_at |-> 0 - 1, wrote |-> 0 - 1,
     levels |-> 0, start |-> <<>>, below |-> <<>>,
     end_i |-> 0 - 1, end_last |-> 0, end_range |-> FALSE]

\* m with the record of the last iteration cleared.
Quiet(m) ==
    [m EXCEPT !.reads = {}, !.right_src = "none", !.right_at = 0 - 1,
              !.wrote = 0 - 1]

Panicked(m) == [m EXCEPT !.pc = "panic"]

\* MvpEnterLayer with the zero-chunk case reading context[height].
MvpEnterLayerDepthIsHeight(layer, leaf_count, ctx, build) ==
    LET chunk_count == Len(layer)
        height == trailing_zeros(leaf_count) + 1
        m0 == [NoCall EXCEPT !.leaf_count = leaf_count, !.height = height]
    IN  IF chunk_count = 0
        THEN IF ContextInRange(ctx, height)
             THEN [m0 EXCEPT !.pc = "done",
                             !.result = ContextIndex(ctx, height),
                             !.depths = {height}]
             ELSE [Panicked(m0) EXCEPT !.depths = {height}]
        ELSE [m0 EXCEPT !.pc = "loop", !.layer = layer, !.start = layer,
                        !.last_index = chunk_count - 1,
                        !.k = height - 1, !.i = 0]

\* MvpEnterLayer with one level too many (height = trailing_zeros + 2).
MvpEnterLayerTallTree(layer, leaf_count, ctx, build) ==
    LET chunk_count == Len(layer)
        height == trailing_zeros(leaf_count) + 2
        m0 == [NoCall EXCEPT !.leaf_count = leaf_count, !.height = height]
    IN  IF chunk_count = 0
        THEN LET depth == height - 1
             IN  IF ContextInRange(ctx, depth)
                 THEN [m0 EXCEPT !.pc = "done",
                                 !.result = ContextIndex(ctx, depth),
                                 !.depths = {depth}]
                 ELSE [Panicked(m0) EXCEPT !.depths = {depth}]
        ELSE [m0 EXCEPT !.pc = "loop", !.layer = layer, !.start = layer,
                        !.last_index = chunk_count - 1,
                        !.k = height - 1, !.i = 0]

\* merkleize_chunks_with_virtual_padding up to the first iteration of the
\* level loop (lines 131-148), for chunks given as their 32-byte slots.
MvpEnterLayer(layer, leaf_count, ctx, build) ==
    LET chunk_count == Len(layer)
        height == trailing_zeros(leaf_count) + 1
        m0 == [NoCall EXCEPT !.leaf_count = leaf_count, !.height = height]
    IN  IF build = "debug"
           /\ (next_power_of_two(leaf_count, build).panic
               \/ next_power_of_two(leaf_count, build).value # leaf_count)
        THEN Panicked(m0)
        ELSE IF chunk_count = 0
        THEN LET depth == height - 1
             IN  IF ContextInRange(ctx, depth)
                 THEN [m0 EXCEPT !.pc = "done",
                                 !.result = ContextIndex(ctx, depth),
                                 !.depths = {depth}]
                 ELSE [Panicked(m0) EXCEPT !.depths = {depth}]
        ELSE [m0 EXCEPT !.pc = "loop", !.layer = layer, !.start = layer,
                        !.last_index = chunk_count - 1,
                        !.k = height - 1, !.i = 0]

\* The same for chunks given as bytes: chunk_count = chunks.len() / 32, and
\* the debug_assert! on the length.
MvpEnter(chunks, leaf_count, ctx, build) ==
    IF build = "debug" /\ Len(chunks) % BYTES_PER_CHUNK # 0
    THEN Panicked(NoCall)
    ELSE MvpEnterLayer(ToLayer(chunks), leaf_count, ctx, build)

\* MvpLess with the parent always written over the left child.
MvpLessParentAtLeft(m) ==
    LET left == m.layer[m.i + 1]
        right == m.layer[m.i + 2]
    IN  IF m.i + 2 > Len(m.layer) THEN Panicked(m)
        ELSE [m EXCEPT !.layer[m.i + 1] = hash_nodes(left, right),
                       !.hashes = @ + 1, !.i = @ + 2,
                       !.reads = {m.i, m.i + 1},
                       !.right_src = "buffer", !.right_at = m.i + 1,
                       !.wrote = m.i]

\* Ordering::Less: both children of pair (i, i + 1) are in the buffer.
MvpLess(m) ==
    LET parent_index == m.i \div 2
        focus_len == (m.i + 2) - parent_index
        children_index == focus_len - 2
        left == m.layer[parent_index + children_index + 1]
        right == m.layer[parent_index + children_index + 2]
        target == IF children_index = 0
                  THEN parent_index + children_index + 1
                  ELSE parent_index + 1
    IN  IF m.i + 2 > Len(m.layer) THEN Panicked(m)
        ELSE [m EXCEPT !.layer[target] = hash_nodes(left, right),
                       !.hashes = @ + 1, !.i = @ + 2,
                       !.reads = {parent_index + children_index,
                                  parent_index + children_index + 1},
                       !.right_src = "buffer",
                       !.right_at = parent_index + children_index + 1,
                       !.wrote = target - 1]

\* MvpEqual with the virtual sibling always taken from context[0].
MvpEqualLeafZero(m, ctx) ==
    LET left == m.layer[m.i + 1]
        target == (m.i \div 2) + 1
    IN  [m EXCEPT !.layer[target] = hash_nodes(left, ContextIndex(ctx, 0)),
                  !.hashes = @ + 1, !.depths = @ \cup {0}, !.i = @ + 2,
                  !.reads = {m.i}, !.right_src = "context", !.right_at = 0,
                  !.wrote = target - 1]

\* MvpEqual with the right child read from the slot after the left one
\* (a zero chunk when the buffer ends there).
MvpEqualRightFromBuffer(m, ctx) ==
    LET left == m.layer[m.i + 1]
        right == IF m.i + 2 <= Len(m.layer) THEN m.layer[m.i + 2]
                 ELSE ZeroChunk
        target == (m.i \div 2) + 1
    IN  [m EXCEPT !.layer[target] = hash_nodes(left, right),
                  !.hashes = @ + 1, !.i = @ + 2,
                  !.reads = {m.i, m.i + 1},
                  !.right_src = "buffer", !.right_at = m.i + 1,
                  !.wrote = target - 1]

\* Ordering::Equal: the right child of pair (i, i + 1) is virtual.
MvpEqual(m, ctx) ==
    LET parent_index == m.i \div 2
        focus_len == (m.i + 1) - parent_index
        children_index == focus_len - 1
        left == m.layer[parent_index + children_index + 1]
        depth == m.height - m.k - 1
        target == IF children_index = 0
                  THEN parent_index + children_index + 1
                  ELSE parent_index + 1
    IN  IF m.i + 1 > Len(m.layer) THEN Panicked(m)
        ELSE IF ~ContextInRange(ctx, depth)
        THEN [Panicked(m) EXCEPT !.depths = @ \cup {depth}]
        ELSE [m EXCEPT !.layer[target] =
                            hash_nodes(left, ContextIndex(ctx, depth)),
                       !.hashes = @ + 1, !.depths = @ \cup {depth},
                       !.i = @ + 2,
                       !.reads = {parent_index + children_index},
                       !.right_src = "context", !.right_at = depth,
                       !.wrote = target - 1]

\* One iteration of the loops of lines 148-188, for a call with pc = "loop":
\* the return when the levels are exhausted, the end of a level (the inner
\* range is exhausted or the pair is beyond last_index) or one pair.
MvpStep(m, ctx, build) ==
    IF m.k < 1
    THEN [Quiet(m) EXCEPT !.pc = "done", !.result = m.layer[1]]
    ELSE IF m.k >= USIZE_BITS /\ build = "debug"
    THEN Panicked(m)
    ELSE IF ~BelowPow2(m.i, m.k) \/ m.i > m.last_index
    THEN [Quiet(m) EXCEPT !.last_index = @ \div 2, !.k = @ - 1, !.i = 0,
                          !.levels = @ + 1, !.below = m.start,
                          !.start = m.layer, !.end_i = m.i,
                          !.end_last = m.last_index,
                          !.end_range = ~BelowPow2(m.i, m.k)]
    ELSE IF m.i < m.last_index THEN MvpLess(m)
    ELSE MvpEqual(m, ctx)

RECURSIVE MvpRun(_, _, _)
MvpRun(m, ctx, build) ==
    IF m.pc # "loop" THEN m ELSE MvpRun(MvpStep(m, ctx, build), ctx, build)

\* merkleize_chunks_with_virtual_padding(chunks, leaf_count, context)
merkleize_chunks_with_virtual_padding(chunks, leaf_count, ctx, build) ==
    MvpRun(MvpEnter(chunks, leaf_count, ctx, build), ctx, build)

\* Option<usize>
None == [some |-> FALSE, value |-> UsizeZero]
Some(u) == [some |-> TRUE, value |-> u]

\* MerkleizeEnterLayer without the comparison of limit and chunk_count.
MerkleizeEnterLayerUnchecked(layer, limit, ctx, build) ==
    LET chunk_count == Len(layer)
        own == next_power_of_two(ToUsize(chunk_count), build)
        lim == next_power_of_two(limit.value, build)
    IN  IF ~limit.some THEN MvpEnterLayer(layer, own.value, ctx, build)
        ELSE IF lim.panic THEN Panicked(NoCall)
        ELSE MvpEnterLayer(layer, lim.value, ctx, build)

\* merkleize up to the first iteration of the level loop (lines 204-212),
\* for chunks given as their 32-byte slots.
MerkleizeEnterLayer(layer, limit, ctx, build) ==
    LET chunk_count == Len(layer)
        own == next_power_of_two(ToUsize(chunk_count), build)
        lim == next_power_of_two(limit.value, build)
    IN  IF own.panic THEN Panicked(NoCall)
        ELSE IF ~limit.some
        THEN MvpEnterLayer(layer, own.value, ctx, build)
        ELSE IF UsizeLess(limit.value, ToUsize(chunk_count))
        THEN [NoCall EXCEPT !.pc = "err", !.err_limit = limit.value]
        ELSE IF lim.panic THEN Panicked(NoCall)
        ELSE MvpEnterLayer(layer, lim.value, ctx, build)

\* The same for chunks given as bytes, with the debug_assert! of line 203.
MerkleizeEnter(chunks, limit, ctx, build) ==
    IF build = "debug" /\ Len(chunks) % BYTES_PER_CHUNK # 0
    THEN Panicked(NoCall)
    ELSE MerkleizeEnterLayer(ToLayer(chunks), limit, ctx, build)

\* merkleize(chunks, limit, context)
merkleize(chunks, limit, ctx, build) ==
    MvpRun(MerkleizeEnter(chunks, limit, ctx, build), ctx, build)

\* merkleize of a buffer that holds the given nodes, one per chunk
merkleize_nodes(layer, limit, ctx, build) ==
    MvpRun(MerkleizeEnterLayer(layer, limit, ctx, build), ctx, build)

---------------------------------------------------------------------------
\* Chunk packer

Zeros(n) == [j \in 1..n |-> 0]

\* pack_bytes padding a full chunk when the length is already a multiple of 32.
pack_bytes_always(buffer) ==
    buffer \o Zeros(BYTES_PER_CHUNK - (Len(buffer) % BYTES_PER_CHUNK))

\* pack_bytes(&mut buffer): the buffer it leaves.
pack_bytes(buffer) ==
    LET data_len == Len(buffer)
    IN  IF data_len % BYTES_PER_CHUNK # 0
        THEN LET bytes_to_pad == BYTES_PER_CHUNK - (data_len % BYTES_PER_CHUNK)
                 pad == Zeros(bytes_to_pad)
             IN  buffer \o pad
        ELSE buffer

\* <u16 as Serialize>::serialize: two bytes, little-endian.
SerializeU16(value) == <<value % 256, value \div 256>>

RECURSIVE SerializeAll(_, _)
SerializeAll(values, buffer) ==
    IF values = <<>> THEN buffer
    ELSE SerializeAll(Tail(values), buffer \o SerializeU16(Head(values)))

\* pack(values) for values: &[u16]
pack(values) == pack_bytes(SerializeAll(values, <<>>))

---------------------------------------------------------------------------
\* Decoration mixer

\* <usize as Serialize>::serialize: eight bytes, little-endian (v < 2^31).
SerializeUsize(v) ==
    [j \in 1..(USIZE_BITS \div 8) |->
        IF j <= 4 THEN (v \div (256 ^ (j - 1))) % 256 ELSE 0]

\* <usize as Merkleized>::hash_tree_root: the value in one zero-padded chunk.
hash_tree_root_usize(v) == pack_bytes(SerializeUsize(v))

\* mix_in_decoration with the two inputs of the hash exchanged.
mix_in_decoration_swapped(root, decoration) ==
    hash_nodes(hash_tree_root_usize(decoration), root)

\* mix_in_decoration(root, decoration, context)
mix_in_decoration(root, decoration) ==
    LET decoration_data == hash_tree_root_usize(decoration)
    IN  hash_nodes(root, decoration_data)

mix_in_length(root, length) == mix_in_decoration(root, length)

mix_in_selector(root, selector) == mix_in_decoration(root, selector)

---------------------------------------------------------------------------
\* Proof verifier

\* Bit j of an index < 2^31.
IndexBit(index, j) == IF j < 31 THEN (index \div (2 ^ j)) % 2 ELSE 0

\* The verifier's loop from level j on: at level j it hashes its value with
\* branch[j], on the side that bit j of index tells.
RECURSIVE BranchFold(_, _, _, _, _)
BranchFold(value, branch, depth, index, j) ==
    IF j >= depth THEN value
    ELSE BranchFold(IF IndexBit(index, j) = 1
                    THEN Sha256(branch[j + 1], value)
                    ELSE Sha256(value, branch[j + 1]),
                    branch, depth, index, j + 1)

\* is_valid_merkle_branch(leaf, branch, depth, index, root)
is_valid_merkle_branch(leaf, branch, depth, index, root) ==
    BranchFold(leaf, branch, depth, index, 0) = root

---------------------------------------------------------------------------
\* Incremental hash cache.  The value is a container of two fields: b, a list
\* of at most ListLimit 256-bit elements, and e, a union of two variants that
\* each hold one 256-bit value.  An element v is the chunk of 32 bytes v.
\* Each of the container, the list and the union caches its root (valid says
\* whether it is current); the container and the list also cache the roots
\* of their leaves, with the set of the leaves marked dirty.

ElementChunk(v) == [j \in 1..BYTES_PER_CHUNK |-> v]

EmptyCache == [valid |-> FALSE, root |-> <<>>, leaves |-> <<>>, dirty |-> {}]

NewFoo(b, e) ==
    [b |-> b, e |-> e, cache |-> EmptyCache, b_cache |-> EmptyCache,
     e_cache |-> EmptyCache, returned |-> <<>>, reused |-> 0]

FooDefault == NewFoo(<<>>, [selector |-> 0, value |-> 0])

\* A leaf of a cache can be reused when it is present and not dirty.
Cached(cache, j) == j <= Len(cache.leaves) /\ j \notin cache.dirty

\* Entry j and the root of a cache are marked dirty.  A dirty entry is
\* never read again, so its node is dropped.
Invalidated(cache, j) ==
    [cache EXCEPT !.valid = FALSE, !.root = <<>>, !.dirty = @ \cup {j},
                  !.leaves = [i \in 1..Len(@) |-> IF i = j THEN <<>> ELSE @[i]]]

\* foo.b[idx] = v with only the element's own entry marked dirty.
SetElementLeafOnly(f, idx, v) ==
    [f EXCEPT !.b[idx] = v,
              !.b_cache.dirty = @ \cup {idx},
              !.returned = <<>>]

\* foo.b[idx] = v: the element's entry and its ancestors are marked dirty.
SetElement(f, idx, v) ==
    [f EXCEPT !.b[idx] = v,
              !.b_cache = Invalidated(@, idx),
              !.cache = Invalidated(@, 1),
              !.returned = <<>>]

\* foo.b.push(v) and foo.b.pop(): the list's cache is dropped whole.
ResizeList(f, b) ==
    [f EXCEPT !.b = b,
              !.b_cache = EmptyCache,
              !.cache = Invalidated(@, 1),
              !.returned = <<>>]

\* foo.e = variant(value)
SetVariant(f, selector, value) ==
    [f EXCEPT !.e = [selector |-> selector, value |-> value],
              !.e_cache = EmptyCache,
              !.cache = Invalidated(@, 2),
              !.returned = <<>>]

\* hash_tree_root of the list: [root, cache, reused]
ListHashTreeRoot(b, cache, ctx, build) ==
    IF cache.valid THEN [root |-> cache.root, cache |-> cache, reused |-> 1]
    ELSE LET leaves == [j \in 1..Len(b) |->
                           IF Cached(cache, j) THEN cache.leaves[j]
                           ELSE ElementChunk(b[j])]
             data == merkleize_nodes(leaves, Some(ToUsize(ListLimit)), ctx, build)
             root == mix_in_length(data.result, Len(b))
         IN  [root |-> root,
              cache |-> [valid |-> TRUE, root |-> root, leaves |-> leaves,
                         dirty |-> {}],
              reused |-> Cardinality({j \in 1..Len(b) : Cached(cache, j)})]

\* hash_tree_root of the union
UnionHashTreeRoot(e, cache) ==
    IF cache.valid THEN [root |-> cache.root, cache |-> cache, reused |-> 1]
    ELSE LET root == mix_in_selector(ElementChunk(e.value), e.selector)
         IN  [root |-> root,
              cache |-> [EmptyCache EXCEPT !.valid = TRUE, !.root = root],
              reused |-> 0]

\* foo.hash_tree_root(&context): the value with its caches after the call,
\* the root returned in returned.
FooHashTreeRoot(f, ctx, build) ==
    IF f.cache.valid THEN [f EXCEPT !.returned = f.cache.root, !.reused = 1]
    ELSE LET lb == IF Cached(f.cache, 1)
                   THEN [root |-> f.cache.leaves[1], cache |-> f.b_cache,
                         reused |-> 1]
                   ELSE ListHashTreeRoot(f.b, f.b_cache, ctx, build)
             le == IF Cached(f.cache, 2)
                   THEN [root |-> f.cache.leaves[2], cache |-> f.e_cache,
                         reused |-> 1]
                   ELSE UnionHashTreeRoot(f.e, f.e_cache)
             leaves == <<lb.root, le.root>>
             root == merkleize_nodes(leaves, None, ctx, build).result
         IN  [f EXCEPT !.cache = [valid |-> TRUE, root |-> root,
                                  leaves |-> leaves, dirty |-> {}],
                       !.b_cache = lb.cache,
                       !.e_cache = le.cache,
                       !.returned = root,
                       !.reused = lb.reused + le.reused]

---------------------------------------------------------------------------
\* The naive algorithm of the tests (tests::merkleize_chunks); leaf_count is
\* a plain integer here, the whole tree being in memory.  Each loop is given
\* from iteration i on; the slots an iteration of the loop touches are in the
\* buffer of node_count slots.

RECURSIVE NaiveZeroLoop(_, _, _, _)
NaiveZeroLoop(buffer, i, leaf_count, interior_count) ==
    IF i >= leaf_count \/ interior_count + i + 1 > Len(buffer) THEN buffer
    ELSE NaiveZeroLoop([buffer EXCEPT ![interior_count + i + 1] = ZeroChunk],
                       i + 1, leaf_count, interior_count)

RECURSIVE NaiveHashLoop(_, _)
NaiveHashLoop(buffer, i) ==
    IF i < 1 \/ i + 1 > Len(buffer) THEN buffer
    ELSE LET parent_index == (i - 1) \div 2
             focus_len == (i + 1) - parent_index
             children_index == focus_len - 2
             left == buffer[parent_index + children_index + 1]
             right == buffer[parent_index + children_index + 2]
         IN  NaiveHashLoop(
                [buffer EXCEPT ![parent_index + 1] = hash_nodes(left, right)],
                i - 2)

\* The 32 bytes of leaf j after buffer[leaf_start..leaf_start + chunks.len()]
\* .copy_from_slice(chunks) into the zeroed buffer: bytes 32j .. 32j + 31 of
\* chunks, as many as there are, and zeros after them.
NaiveLeaf(chunks, j) ==
    LET first == j * BYTES_PER_CHUNK + 1
        last == IF (j + 1) * BYTES_PER_CHUNK < Len(chunks)
                THEN (j + 1) * BYTES_PER_CHUNK ELSE Len(chunks)
    IN  IF first > Len(chunks) THEN ZeroChunk
        ELSE SubSeq(chunks, first, last)
                \o Zeros(BYTES_PER_CHUNK - (last - first + 1))

\* tests::merkleize_chunks(chunks, leaf_count) in the given build: whether it
\* panics and, when it returns, its buffer: slot p + 1 holds node p of the
\* tree, the root first and the leaves last.  It panics on a debug_assert!
\* of lines 303-304 (debug build), on a leaf_count of 0 (2 * leaf_count - 1
\* overflows: the debug_assert! in a debug build, the allocation of the
\* wrapped size in a release build) and on chunks longer than the leaves
\* (the slice of line 312 is out of range).
NaiveTree(chunks, leaf_count, build) ==
    LET node_count == 2 * leaf_count - 1
        interior_count == node_count - leaf_count
        zeroed == [p \in 1..node_count |-> ZeroChunk]
        copied == [p \in 1..node_count |->
                     IF p > interior_count
                     THEN NaiveLeaf(chunks, p - interior_count - 1)
                     ELSE zeroed[p]]
        padded == NaiveZeroLoop(copied, Len(chunks), leaf_count, interior_count)
    IN  IF build = "debug"
           /\ (\/ Len(chunks) % BYTES_PER_CHUNK # 0
               \/ ~(\E e \in 0..30 : leaf_count = 2 ^ e))
        THEN [panic |-> TRUE, buffer |-> <<>>]
        ELSE IF leaf_count < 1
        THEN [panic |-> TRUE, buffer |-> <<>>]
        ELSE IF Len(chunks) > leaf_count * BYTES_PER_CHUNK
        THEN [panic |-> TRUE, buffer |-> <<>>]
        ELSE [panic |-> FALSE,
              buffer |-> NaiveHashLoop(padded, node_count - 1)]

\* tests::merkleize_chunks(chunks, leaf_count): Ok(buffer[0..32]) or a panic.
merkleize_chunks(chunks, leaf_count, build) ==
    LET tree == NaiveTree(chunks, leaf_count, build)
    IN  IF tree.panic THEN [panic |-> TRUE, root |-> <<>>]
        ELSE [panic |-> FALSE, root |-> tree.buffer[1]]

---------------------------------------------------------------------------
\* The program

VARIABLES
    context,    \* the Context every call is given
    build,      \* "debug" or "release": overflow checks and debug_assert!
    call,       \* the call in progress or last made, with its arguments
    m,          \* the state of that call of the merkleizer
    pk,         \* the buffer pack_bytes works on, or the last call of pack
    mx,         \* the last two calls of mix_in_length / mix_in_selector
    pf,         \* the last call of is_valid_merkle_branch on the tree of m
    foo         \* a composite value with its incremental hash cache

vars == <<context, build, call, m, pk, mx, pf, foo>>

\* Inputs.  A chunk sequence of n chunks: chunk j (from 1) is 32 bytes j
\* when j is in marked and the zero chunk otherwise.
ChunkBuffer(n, marked) ==
    [p \in 1..(n * BYTES_PER_CHUNK) |->
        LET j == ((p - 1) \div BYTES_PER_CHUNK) + 1
        IN  IF j \in marked THEN j ELSE 0]

\* For each n: no chunk marked, all, the last only, all but the last, the
\* first only.
ChunkBuffers ==
    {ChunkBuffer(nm[1], nm[2]) : nm \in
        {<<n, marked>> : <<n, marked>> \in
            UNION {{<<n, {}>>, <<n, 1..n>>, <<n, {n} \cap (1..n)>>,
                    <<n, 1..(n - 1)>>, <<n, {1} \cap (1..n)>>} :
                   n \in 0..MaxChunks}}}

\* 2^63 - 1 and 2^63 + 1
BelowTop == [j \in Bits |-> IF j < USIZE_BITS - 1 THEN 1 ELSE 0]
AboveTop == [j \in Bits |-> IF j = 0 \/ j = USIZE_BITS - 1 THEN 1 ELSE 0]

Limits ==
    {None} \cup {Some(ToUsize(n)) : n \in 0..MaxLimit}
           \cup {Some(Pow2Usize(10)), Some(BelowTop),
                 Some(Pow2Usize(USIZE_BITS - 1)), Some(AboveTop), Some(UsizeMax)}

\* log2 of the leaf counts of direct calls of the virtual-padding routine
LeafExponents == {0, 1, 2, 3, 10, USIZE_BITS - 1}

NoArgs == [op |-> "none", chunks |-> <<>>, limit |-> None, exp |-> 0 - 1]

\* Buffers for pack_bytes: n bytes, all 0, all 1, or 1, 2, 3, ...
PatternBuffer(n, pattern) ==
    [p \in 1..n |-> IF pattern = "zeros" THEN 0
                    ELSE IF pattern = "ones" THEN 1
                    ELSE ((p - 1) % 255) + 1]

PackBuffers ==
    {PatternBuffer(n, pattern) :
        <<n, pattern>> \in (0..MaxBufLen) \X {"zeros", "ones", "count"}}

\* Values for pack: n times the same u16
ValueLists ==
    {[j \in 1..n |-> v] : <<n, v>> \in (0..MaxValues) \X {1, 258, 65535}}

NoPack ==
    [op |-> "none", original |-> <<>>, values |-> <<>>, buffer |-> <<>>,
     packs |-> 0, first |-> <<>>]

\* Roots and decorations for the mixer
MixRoots ==
    {ZeroChunk, ChunkBuffer(1, {1}), ZeroNode(2),
     Sha256(ChunkBuffer(1, {1}), ZeroChunk)}

Decorations == (0..MaxDecoration) \cup {255, 256, 257, 65536}

NoMixCall == [op |-> "none", root |-> <<>>, decoration |-> 0, output |-> <<>>]
NoMix == [cur |-> NoMixCall, prev |-> NoMixCall]

NoProof ==
    [state |-> "none", index |-> 0, tamper |-> "none", pos |-> 0,
     valid |-> FALSE]

Init ==
    /\ context = ContextNew
    /\ build \in {"debug", "release"}
    /\ call = NoArgs
    /\ m = NoCall
    /\ pk = NoPack
    /\ mx = NoMix
    /\ pf = NoProof
    /\ foo = FooDefault

\* Nothing is in progress.
Idle == m.pc = "idle" /\ pk = NoPack /\ mx = NoMix /\ foo = FooDefault

\* merkleize(chunks, limit, &context) is called.
CallMerkleize ==
    \E chunks \in ChunkBuffers, limit \in Limits :
        /\ Idle
        /\ call' = [op |-> "merkleize", chunks |-> chunks, limit |-> limit,
                    exp |-> 0 - 1]
        /\ m' = MerkleizeEnter(chunks, limit, context, build)
        /\ UNCHANGED <<context, build, pk, mx, pf, foo>>

\* merkleize_chunks_with_virtual_padding(chunks, 2^e, &context) is called
\* with at most 2^e chunks, as merkleize and the tests call it.
CallVirtualPadding ==
    \E chunks \in ChunkBuffers, e \in LeafExponents :
        /\ Idle
        /\ BelowPow2((Len(chunks) \div BYTES_PER_CHUNK) - 1, e)
        /\ call' = [op |-> "virtual_padding", chunks |-> chunks,
                    limit |-> None, exp |-> e]
        /\ m' = MvpEnter(chunks, Pow2Usize(e), context, build)
        /\ UNCHANGED <<context, build, pk, mx, pf, foo>>

\* The call in progress runs one iteration of its loops.
Step ==
    /\ m.pc = "loop"
    /\ m' = MvpStep(m, context, build)
    /\ UNCHANGED <<context, build, call, pk, mx, pf, foo>>

\* The caller takes the result of the call; the next call can be made.
Return ==
    /\ m.pc \in {"done", "err"}
    /\ call' = NoArgs
    /\ m' = NoCall
    /\ pf' = NoProof
    /\ UNCHANGED <<context, build, pk, mx, foo>>

\* A buffer is created.
NewBuffer ==
    \E buffer \in PackBuffers :
        /\ Idle
        /\ pk' = [NoPack EXCEPT !.op = "pack_bytes", !.original = buffer,
                                !.buffer = buffer]
        /\ UNCHANGED <<context, build, call, m, mx, pf, foo>>

\* pack_bytes(&mut buffer)
PackBytes ==
    /\ pk.op = "pack_bytes"
    /\ pk.packs < MaxPacks
    /\ pk' = [pk EXCEPT !.buffer = pack_bytes(pk.buffer),
                        !.packs = @ + 1,
                        !.first = IF pk.packs = 0 THEN pack_bytes(pk.buffer)
                                  ELSE @]
    /\ UNCHANGED <<context, build, call, m, mx, pf, foo>>

\* pack(&values)
CallPack ==
    \E values \in ValueLists :
        /\ Idle
        /\ pk' = [NoPack EXCEPT !.op = "pack", !.values = values,
                                !.buffer = pack(values), !.packs = 1]
        /\ UNCHANGED <<context, build, call, m, mx, pf, foo>>

\* The buffer is dropped.
DropBuffer ==
    /\ pk.op # "none"
    /\ pk' = NoPack
    /\ UNCHANGED <<context, build, call, m, mx, pf, foo>>

MixReady == m.pc = "idle" /\ pk = NoPack /\ foo = FooDefault

\* mix_in_length(&root, length, &context)
MixInLength ==
    \E root \in MixRoots, length \in Decorations :
        /\ MixReady
        /\ mx' = [prev |-> mx.cur,
                  cur |-> [op |-> "length", root |-> root, decoration |-> length,
                           output |-> mix_in_length(root, length)]]
        /\ UNCHANGED <<context, build, call, m, pk, pf, foo>>

\* mix_in_selector(&root, selector, &context)
MixInSelector ==
    \E root \in MixRoots, selector \in Decorations :
        /\ MixReady
        /\ mx' = [prev |-> mx.cur,
                  cur |-> [op |-> "selector", root |-> root,
                           decoration |-> selector,
                           output |-> mix_in_selector(root, selector)]]
        /\ UNCHANGED <<context, build, call, m, pk, pf, foo>>

\* The mixed roots are dropped.
DropMixes ==
    /\ mx # NoMix
    /\ mx' = NoMix
    /\ UNCHANGED <<context, build, call, m, pk, pf, foo>>

\* The root of the full binary tree of 2^depth leaves whose first leaves are
\* the nodes of leaves and whose other leaves are zero chunks.  A subtree
\* without a real leaf is the all-zero tree of its height.
RECURSIVE DenseRoot(_, _)
DenseRoot(leaves, depth) ==
    IF Len(leaves) = 0 THEN ZeroNode(depth)
    ELSE IF depth = 0 THEN leaves[1]
    ELSE LET half == IF depth - 1 >= 30 THEN Len(leaves)
                     ELSE IF 2 ^ (depth - 1) < Len(leaves) THEN 2 ^ (depth - 1)
                     ELSE Len(leaves)
         IN  Sha256(DenseRoot(SubSeq(leaves, 1, half), depth - 1),
                    DenseRoot(SubSeq(leaves, half + 1, Len(leaves)), depth - 1))

\* H(...H(H(v, Z(lo)), Z(lo + 1))..., Z(hi - 1)) for 1 <= lo <= hi, Z(d) the
\* all-zero tree of height d: hi - lo digests, each of the node below it and
\* the zero tree beside it, written as the one term they make.
ZeroLift(v, lo, hi) ==
    IF hi = lo THEN v
    ELSE IF ZeroDepth(v) >= 0 THEN ZeroNode(ZeroDepth(v) + (hi - lo))
    ELSE [i \in 1..(hi - lo) |-> HashTag] \o v
            \o [i \in 1..(2 * (hi - lo)) |->
                    IF i % 2 = 1 THEN ZeroTag ELSE lo + (i \div 2) - 1]

\* The height >= 1 of the smallest subtree that holds n >= 1 leaves.
CoverDepth(n) ==
    CHOOSE e \in 1..30 : 2 ^ e >= n /\ \A f \in 1..30 : 2 ^ f >= n => f >= e

\* Above the subtree that holds the leaves, every sibling is a zero tree.
FullTreeRoot(leaves, depth) ==
    IF Len(leaves) = 0 THEN ZeroNode(depth)
    ELSE IF depth <= CoverDepth(Len(leaves)) THEN DenseRoot(leaves, depth)
    ELSE ZeroLift(DenseRoot(leaves, CoverDepth(Len(leaves))),
                  CoverDepth(Len(leaves)), depth)

\* The tree of the call that has returned: its depth, its leaves and the
\* sibling at level l (0 for the leaves) of the path from leaf index.
TreeDepth == call.exp

LeafAt(leaves, index) ==
    IF index < Len(leaves) THEN leaves[index + 1] ELSE ZeroChunk

SiblingAt(leaves, index, l) ==
    IF l >= 30 THEN ZeroNode(l)
    ELSE LET own == index \div (2 ^ l)
             block == IF own % 2 = 0 THEN own + 1 ELSE own - 1
             first == block * (2 ^ l) + 1
             last == IF (block + 1) * (2 ^ l) < Len(leaves)
                     THEN (block + 1) * (2 ^ l) ELSE Len(leaves)
         IN  FullTreeRoot(SubSeq(leaves, first, last), l)

BranchOf(leaves, index, depth) ==
    [l \in 1..depth |-> SiblingAt(leaves, index, l - 1)]

ProofIndices == 0..MaxChunks
TamperPositions == {0, 1, MaxProofDepth - 1}
Replacements == {ZeroChunk, ChunkBuffer(1, {1})}

\* is_valid_merkle_branch is called for a leaf of the tree whose root the
\* virtual-padding routine has returned, with the leaf's branch, as they are
\* or with the leaf or one branch node replaced by another value.
VerifyBranch ==
    \E index \in ProofIndices, tamper \in {"none", "leaf", "branch"},
       pos \in TamperPositions, other \in Replacements :
        LET leaves == ToLayer(call.chunks)
            depth == TreeDepth
            leaf == LeafAt(leaves, index)
            branch == BranchOf(leaves, index, depth)
        IN  /\ call.op = "virtual_padding" /\ m.pc = "done"
            /\ pf.state = "none"
            /\ depth <= MaxProofDepth
            /\ BelowPow2(index, depth)
            /\ tamper = "branch" => pos < depth /\ other # branch[pos + 1]
            /\ tamper = "leaf" => pos = 0 /\ other # leaf
            /\ tamper = "none" => pos = 0 /\ other = ZeroChunk
            /\ pf' = [state |-> "checked", index |-> index, tamper |-> tamper,
                      pos |-> pos,
                      valid |-> is_valid_merkle_branch(
                          IF tamper = "leaf" THEN other ELSE leaf,
                          IF tamper = "branch"
                          THEN [branch EXCEPT ![pos + 1] = other] ELSE branch,
                          depth, index, m.result)]
            /\ UNCHANGED <<context, build, call, m, pk, mx, foo>>

FooReady == m.pc = "idle" /\ pk = NoPack /\ mx = NoMix

ElementValues == {1, 2}

\* foo.b[idx] = v
MutateElement ==
    \E idx \in 1..MaxElems, v \in ElementValues :
        /\ FooReady
        /\ idx <= Len(foo.b)
        /\ foo' = SetElement(foo, idx, v)
        /\ UNCHANGED <<context, build, call, m, pk, mx, pf>>

\* foo.b.push(v)
PushElement ==
    \E v \in ElementValues :
        /\ FooReady
        /\ Len(foo.b) < MaxElems /\ Len(foo.b) < ListLimit
        /\ foo' = ResizeList(foo, Append(foo.b, v))
        /\ UNCHANGED <<context, build, call, m, pk, mx, pf>>

\* foo.b.pop()
PopElement ==
    /\ FooReady
    /\ Len(foo.b) > 0
    /\ foo' = ResizeList(foo, SubSeq(foo.b, 1, Len(foo.b) - 1))
    /\ UNCHANGED <<context, build, call, m, pk, mx, pf>>

\* foo.e = A(value) or B(value)
SwitchVariant ==
    \E selector \in {0, 1}, value \in ElementValues :
        /\ FooReady
        /\ foo' = SetVariant(foo, selector, value)
        /\ UNCHANGED <<context, build, call, m, pk, mx, pf>>

\* foo.hash_tree_root(&context)
HashTreeRoot ==
    /\ FooReady
    /\ foo' = FooHashTreeRoot(foo, context, build)
    /\ UNCHANGED <<context, build, call, m, pk, mx, pf>>

\* foo is dropped and a new default value takes its place.
DropValue ==
    /\ foo # FooDefault
    /\ foo' = FooDefault
    /\ UNCHANGED <<context, build, call, m, pk, mx, pf>>

Next ==
    \/ CallMerkleize \/ CallVirtualPadding \/ Step \/ Return
    \/ NewBuffer \/ PackBytes \/ CallPack \/ DropBuffer
    \/ MixInLength \/ MixInSelector \/ DropMixes
    \/ VerifyBranch
    \/ MutateElement \/ PushElement \/ PopElement \/ SwitchVariant
    \/ HashTreeRoot \/ DropValue

Spec == Init /\ [][Next]_vars

---------------------------------------------------------------------------
\* Reference definitions of the properties

ChunkCount(bytes) == Len(bytes) \div BYTES_PER_CHUNK

\* The smallest power of two >= n, for a plain integer n.
NextPow2(n) ==
    LET e == CHOOSE e \in 0..30 :
                 2 ^ e >= n /\ \A f \in 0..30 : 2 ^ f >= n => f >= e
    IN  2 ^ e

\* The value of a usize whose bits 31.. are zero.
IsSmall(u) == \A j \in Bits : j >= 31 => u[j] = 0
RECURSIVE BitsValue(_, _, _)
BitsValue(u, lo, hi) ==
    IF lo = hi THEN u[lo] * (2 ^ lo)
    ELSE LET mid == (lo + hi) \div 2
         IN  BitsValue(u, lo, mid) + BitsValue(u, mid + 1, hi)
SmallValue(u) == BitsValue(u, 0, 30)

\* u <= 2^63
AtMostTop(u) == u[USIZE_BITS - 1] = 0 \/ u = Pow2Usize(USIZE_BITS - 1)

\* log2 of the smallest power of two >= u, for u <= 2^64 - 1.
CeilLog2(u) ==
    IF \A j \in Bits : j > 0 => u[j] = 0 THEN 0
    ELSE LET top == CHOOSE j \in Bits : u[j] = 1 /\ \A h \in Bits : h > j => u[h] = 0
         IN  IF \A j \in Bits : j # top => u[j] = 0 THEN top ELSE top + 1

LimitBelowCount == 
    /\ call.op = "merkleize" /\ call.limit.some
    /\ IsSmall(call.limit.value)
    /\ SmallValue(call.limit.value) < ChunkCount(call.chunks)

LimitCoversCount == 
    /\ call.op = "merkleize" /\ call.limit.some
    /\ (IsSmall(call.limit.value)
            => SmallValue(call.limit.value) >= ChunkCount(call.chunks))

\* What C2 says of a call with a limit that covers the chunks.
RootOfLimitTree ==
    /\ m.pc \in {"loop", "done"}
    /\ m.pc = "done" =>
        /\ m.result = FullTreeRoot(ToLayer(call.chunks), CeilLog2(call.limit.value))
        /\ (IsSmall(call.limit.value) /\ SmallValue(call.limit.value) <= MaxLimit)
              => LET naive == merkleize_chunks(call.chunks,
                                  NextPow2(SmallValue(call.limit.value)), build)
                 IN  ~naive.panic /\ m.result = naive.root

---------------------------------------------------------------------------
\* Claims

\* C1: merkleize(chunks, None, context) of n >= 0 chunks succeeds and returns
\* the root the naive algorithm builds over next_power_of_two(n) leaves, the
\* real chunks first and explicit zero chunks after them.
C1_VirtualEqualsNaive ==
    (call.op = "merkleize" /\ ~call.limit.some) =>
        /\ m.pc \in {"loop", "done"}
        /\ m.pc = "done" =>
              LET naive == merkleize_chunks(call.chunks,
                               NextPow2(ChunkCount(call.chunks)), build)
              IN  ~naive.panic /\ m.result = naive.root

C1_Witness ==
    /\ call.op = "merkleize" /\ ~call.limit.some /\ m.pc = "done"
    /\ ChunkCount(call.chunks) = 5
    /\ ChunkAt(call.chunks, 4) # ZeroChunk
    /\ m.hashes = 6

\* C2 as stated: for every limit >= chunk_count, merkleize(chunks,
\* Some(limit), context) succeeds and returns the root of the full tree of
\* next_power_of_two(limit) leaves.
C2_AnyLimit == LimitCoversCount => RootOfLimitTree

\* C2 amended: the same for every limit with chunk_count <= limit <= 2^63.
C2_LimitUpToTop ==
    (LimitCoversCount /\ AtMostTop(call.limit.value)) => RootOfLimitTree

C2_Witness ==
    /\ LimitCoversCount /\ m.pc = "done"
    /\ call.limit.value = Pow2Usize(USIZE_BITS - 1)
    /\ ChunkCount(call.chunks) = 3
    /\ ChunkAt(call.chunks, 2) # ZeroChunk

\* C3: with a limit < chunk_count, merkleize returns
\* Err(InputExceedsLimit(limit)) and no root, and hashes nothing.
C3_LimitExceeded ==
    LimitBelowCount =>
        /\ m.pc = "err"
        /\ m.err_limit = call.limit.value
        /\ m.result = <<>>
        /\ m.hashes = 0

C3_Witness ==
    /\ LimitBelowCount /\ m.pc = "err"
    /\ ChunkCount(call.chunks) = 3
    /\ SmallValue(call.limit.value) = 2

\* C4: without chunks, merkleize_chunks_with_virtual_padding(chunks, 2^e,
\* context) returns context[e] and computes no digest; merkleize([], None,
\* context) returns the zero chunk, context[0].
C4_EmptyIsContextEntry ==
    /\ (call.op = "virtual_padding" /\ ChunkCount(call.chunks) = 0) =>
          /\ m.pc = "done"
          /\ m.result = ContextIndex(context, call.exp)
          /\ m.hashes = 0
    /\ (call.op = "merkleize" /\ ~call.limit.some /\ ChunkCount(call.chunks) = 0) =>
          /\ m.pc = "done"
          /\ m.result = [j \in 1..BYTES_PER_CHUNK |-> 0]
          /\ m.result = ContextIndex(context, 0)
          /\ m.hashes = 0

C4_Witness ==
    /\ call.op = "virtual_padding" /\ ChunkCount(call.chunks) = 0
    /\ call.exp = 10 /\ m.pc = "done"

\* C5: in every state, entry 0 of the context is the zero chunk and entry
\* i + 1 is H(entry i || entry i) for 0 <= i < 63: Context::new() builds it
\* so and no call changes it.
C5_ZeroHashTable ==
    /\ Len(context.zero_hashes) = MAX_MERKLE_TREE_DEPTH
    /\ ContextIndex(context, 0) = [j \in 1..BYTES_PER_CHUNK |-> 0]
    /\ \A i \in 0..(MAX_MERKLE_TREE_DEPTH - 2) :
          ContextIndex(context, i + 1)
              = Sha256(ContextIndex(context, i), ContextIndex(context, i))

C5_Witness ==
    /\ call.op = "merkleize" /\ m.pc = "done" /\ m.hashes > 0
    /\ \E d \in m.depths : d > 0

\* C6: pack_bytes leaves a buffer whose length is the smallest multiple of 32
\* >= the original length, that starts with the original bytes and is zero
\* after them; an aligned buffer (the empty one too) is left as it is, and a
\* second pack_bytes changes nothing.  pack(values) is the concatenation of
\* the values' serializations, padded the same way.
C6_PackPadsToChunk ==
    /\ (pk.op = "pack_bytes" /\ pk.packs >= 1) =>
          LET n == Len(pk.original)
              padded == Len(pk.buffer)
          IN  /\ padded % BYTES_PER_CHUNK = 0
              /\ padded >= n /\ padded - n < BYTES_PER_CHUNK
              /\ \A p \in 1..n : pk.buffer[p] = pk.original[p]
              /\ \A p \in (n + 1)..padded : pk.buffer[p] = 0
              /\ (n % BYTES_PER_CHUNK = 0 => pk.buffer = pk.original)
              /\ pk.buffer = pk.first
    /\ pk.op = "pack" =>
          LET n == 2 * Len(pk.values)
              padded == Len(pk.buffer)
          IN  /\ padded % BYTES_PER_CHUNK = 0
              /\ padded >= n /\ padded - n < BYTES_PER_CHUNK
              /\ \A j \in 1..Len(pk.values) :
                    /\ pk.buffer[2 * j - 1] = pk.values[j] % 256
                    /\ pk.buffer[2 * j] = pk.values[j] \div 256
              /\ \A p \in (n + 1)..padded : pk.buffer[p] = 0

C6_Witness ==
    /\ pk.op = "pack_bytes" /\ pk.packs = 2
    /\ Len(pk.original) = 33 /\ pk.original[33] = 33
    /\ Len(pk.buffer) = 64

\* The chunk of a scalar: little-endian, zero-padded to 32 bytes.
ScalarChunk(v) ==
    [j \in 1..BYTES_PER_CHUNK |->
        IF j = 1 THEN v % 256
        ELSE IF j = 2 THEN (v \div 256) % 256
        ELSE IF j = 3 THEN (v \div 65536) % 256
        ELSE IF j = 4 THEN (v \div 16777216) % 256
        ELSE 0]

\* C7: mix_in_length(root, L, context) and mix_in_selector(root, S, context)
\* return H(root || scalar chunk), root on the left; two calls with the same
\* root and different scalars return different nodes.
C7_MixIsHashOfRootAndScalar ==
    /\ mx.cur.op # "none" =>
          mx.cur.output = Sha256(mx.cur.root, ScalarChunk(mx.cur.decoration))
    /\ (mx.cur.op # "none" /\ mx.prev.op # "none"
        /\ mx.cur.root = mx.prev.root
        /\ mx.cur.decoration # mx.prev.decoration)
          => mx.cur.output # mx.prev.output

C7_Witness ==
    /\ mx.cur.op = "length" /\ mx.prev.op = "length"
    /\ mx.cur.root = mx.prev.root
    /\ mx.cur.decoration = 256 /\ mx.prev.decoration = 1

\* C9: for a tree built by the merkleizer and a leaf of it at position index,
\* is_valid_merkle_branch(leaf, branch, depth, index, root) is true for the
\* leaf's sibling nodes and the tree's root, and false once the leaf or a
\* branch node is replaced by a different value.
C9_BranchRoundTrip ==
    pf.state = "checked" => (pf.valid <=> pf.tamper = "none")

C9_Witness ==
    /\ pf.state = "checked" /\ pf.tamper = "none" /\ pf.valid
    /\ pf.index = 4 /\ ChunkCount(call.chunks) = 5 /\ call.exp = 10
    /\ ChunkAt(call.chunks, 4) # ZeroChunk

\* C8: whatever mutations and hash_tree_root calls came before, the root
\* hash_tree_root returns is the root of a fresh value with the same contents
\* and an empty cache.
C8_CachedRootIsFreshRoot ==
    foo.returned # <<>> =>
        foo.returned = FooHashTreeRoot(NewFoo(foo.b, foo.e), context, build).returned

C8_Witness ==
    /\ foo.returned # <<>> /\ foo.reused >= 2
    /\ Len(foo.b) = 2 /\ foo.b[1] # foo.b[2]
    /\ foo.e.selector = 1

\* C10: in a call of merkleize with no limit or chunk_count <= limit <= 2^63,
\* and in a call of merkleize_chunks_with_virtual_padding with leaf_count a
\* power of two <= 2^63, every index the context is read at is < 64 and no
\* read is out of range.
C10_DepthInTable ==
    (\/ call.op = "virtual_padding"
     \/ call.op = "merkleize" /\ ~call.limit.some
     \/ LimitCoversCount /\ AtMostTop(call.limit.value)) =>
        /\ m.pc # "panic"
        /\ \A d \in m.depths : d >= 0 /\ d < MAX_MERKLE_TREE_DEPTH

C10_Witness ==
    /\ call.op = "merkleize" /\ m.pc = "done"
    /\ (MAX_MERKLE_TREE_DEPTH - 1) \in m.depths

\* The right input of the digest of the pair whose left child is slot j of
\* the level that began as the buffer nodes with rightmost real node last,
\* levels levels above the leaves: the next slot, or the zero tree of the
\* context when slot j is the rightmost real node.
RightInput(nodes, j, last, levels) ==
    IF j < last THEN nodes[j + 2] ELSE ContextIndex(context, levels)

\* C11: in merkleize_chunks_with_virtual_padding with at least one chunk,
\* an iteration that hashes a pair reads only buffer slots <= last_index of
\* its level, and its left child is one of them; when the left child is
\* slot last_index the right input is context[d], d the number of levels
\* already left behind, and the only slot read is the left child's; and a
\* level that ends before its range is exhausted ends at the first even
\* index > last_index.
C11_ReadsUpToLastIndex ==
    /\ m.right_src # "none" =>
          /\ \A j \in m.reads : j >= 0 /\ j <= m.last_index
          /\ (m.i - 2) \in m.reads
          /\ m.i - 2 < m.last_index =>
                /\ m.right_src = "buffer" /\ m.right_at = m.i - 1
                /\ m.reads = {m.i - 2, m.i - 1}
          /\ m.i - 2 = m.last_index =>
                /\ m.right_src = "context" /\ m.right_at = m.levels
                /\ m.right_at = m.height - m.k - 1
                /\ m.reads = {m.i - 2}
                /\ m.layer[m.wrote + 1]
                      = Sha256(m.start[m.i - 1], ContextIndex(context, m.levels))
    /\ (m.end_i >= 0 /\ ~m.end_range) =>
          /\ m.end_i > m.end_last
          /\ m.end_i - 2 <= m.end_last

C11_Witness ==
    /\ call.op = "virtual_padding" /\ ChunkCount(call.chunks) = 5
    /\ m.pc = "loop" /\ m.levels = 1 /\ m.last_index = 2 /\ m.i = 4
    /\ m.right_src = "context" /\ m.right_at = 1
    /\ m.end_i = 6 /\ ~m.end_range

\* leaf_count is a power of two.
LeafCountIsPow2 == \E e \in Bits : m.leaf_count = Pow2Usize(e)

\* What C12 says of the buffer: the parent of every pair already hashed in
\* the current level is in slot i/2 and is the digest of the pair's inputs
\* as they were when the level began; the children not yet hashed are as
\* they were then; the slot just written is i/2, at or before the left child
\* of its pair; and the level that has ended left in slots 0..last_index/2
\* the parents of its real nodes, in order.
ParentsInPlace ==
    /\ m.pc = "loop" =>
          /\ \A p \in 0..(m.last_index \div 2) :
                2 * p < m.i =>
                    m.layer[p + 1]
                        = Sha256(m.start[2 * p + 1],
                                 RightInput(m.start, 2 * p, m.last_index, m.levels))
          /\ \A j \in 0..m.last_index :
                j >= m.i => m.layer[j + 1] = m.start[j + 1]
    /\ m.wrote >= 0 =>
          /\ m.wrote = (m.i - 2) \div 2
          /\ m.wrote <= m.i - 2
          /\ m.i - 2 = 0 => m.wrote = 0
    /\ m.end_i >= 0 =>
          \A p \in 0..(m.end_last \div 2) :
              m.start[p + 1]
                  = Sha256(m.below[2 * p + 1],
                           RightInput(m.below, 2 * p, m.end_last, m.levels - 1))

\* C12: in every call of merkleize_chunks_with_virtual_padding, the parent of
\* the pair (i, i + 1) is the digest of the children as they were before any
\* write of the level, it is written to slot i/2 over no child still to be
\* hashed, and after a level slots 0..last_index/2 hold the parents of the
\* level's real nodes, in order.
C12_AnyCall == ParentsInPlace

\* The call in which C12 fails: a release build, merkleize with a limit
\* above 2^63 and two chunks or more; limit.next_power_of_two() has wrapped
\* to 0, the range of level 64 was empty and the level ended with no pair
\* hashed, last_index halved over the children as they were.
C12_Witness ==
    /\ build = "release" /\ call.op = "merkleize" /\ call.limit.some
    /\ ~AtMostTop(call.limit.value) /\ ChunkCount(call.chunks) >= 2
    /\ m.leaf_count = UsizeZero /\ m.height = USIZE_BITS + 1
    /\ m.levels = 1 /\ m.end_i = 0 /\ m.end_range
    /\ m.start = m.below /\ m.hashes = 0
    /\ ~ParentsInPlace

\* In the calls that enter with leaf_count a power of two, the debug_assert!
\* of line 135, the buffer is as C12 says; every call of a debug build that
\* reaches the level loop is one of them.
ParentsInPlaceUnderEntryInvariant ==
    /\ LeafCountIsPow2 => ParentsInPlace
    /\ (build = "debug" /\ m.pc \in {"loop", "done"}) => LeafCountIsPow2

====
